---- MODULE Spec2Model ----
(***************************************************************************)
(* A model of trollius/coroutines.py: the coroutine() decorator and its    *)
(* synthesized trampoline, the CoroWrapper debug proxy, the Return signal  *)
(* in its two forms, and the From()/FromWrapper delegation tag.            *)
(***************************************************************************)
EXTENDS Integers, Sequences, FiniteSets, Bags, TLC

\* ------------------------------------------------------------------ bounds
MaxVal == 0        \* plain values are 0..MaxVal
MaxDecor == 1      \* re-decorations after import
MaxArgs == 3       \* arguments of one Return(*args) evaluation
MaxBuilt == 1      \* Return(*args) evaluations whose value is compared
MaxSigs == 2       \* Return objects built and dropped by user code
MaxLive == 1       \* Return objects a driver holds before it drops one
MaxTags == 3       \* objects built by From()/FromWrapper() applications

\* ------------------------------------------------------------------ values
None == [k |-> "none"]
Val(n) == [k |-> "val", v |-> n]
Fut(i) == [k |-> "fut", fid |-> i]
\* a reference to generator `id`; wrapped: the object referred to is the
\* CoroWrapper around it, not the generator itself
Ref(i, w) == [k |-> "coro", id |-> i, wrapped |-> w]
Tuple(s) == [k |-> "tuple", items |-> s]
FromW(o) == [k |-> "from", obj |-> o]

PlainVals == {Val(n) : n \in 0..MaxVal}
SendVals == {None} \cup PlainVals
Futures == {Fut(0)}

\* isinstance(res, futures.Future)
IsFuture(x) == x.k = "fut"
\* inspect.isgenerator(res): a CoroWrapper is not a generator
IsGenerator(x) == x.k = "coro" /\ ~x.wrapped
IsFromWrapper(x) == x.k = "from"

\* ------------------------------------------------------------ Return signal
\* def Return(*args), the function form used when compat.PY33
ReturnFunction(args) ==
  LET value == IF Len(args) = 0 THEN None
               ELSE IF Len(args) = 1 THEN args[1]
               ELSE Tuple(args)
  IN  [tracked |-> FALSE, value |-> value, raised |-> FALSE]

\* Return.__init__, the class form
ReturnClassMissingSingle(args) ==
  [tracked |-> TRUE,
   value |-> IF Len(args) = 0 THEN None ELSE Tuple(args),
   raised |-> FALSE]

ReturnClass(args) ==
  [tracked |-> TRUE,
   value |-> IF Len(args) = 0 THEN None
             ELSE IF Len(args) = 1 THEN args[1]
             ELSE Tuple(args),
   raised |-> FALSE]

\* the name Return as bound at import: if compat.PY33 ... else ...
Return(args, py33) == IF py33 THEN ReturnFunction(args) ELSE ReturnClass(args)

\* Return.__del__: the bag of records it hands to logger.error
ReturnDelAlways(sig) ==
  SetToBag({[kind |-> "return_without_raise", value |-> sig.value]})

ReturnDelInverted(sig) ==
  IF sig.raised
    THEN SetToBag({[kind |-> "return_without_raise", value |-> sig.value]})
    ELSE EmptyBag

ReturnDel(sig) ==
  IF ~sig.raised
    THEN SetToBag({[kind |-> "return_without_raise", value |-> sig.value]})
    ELSE EmptyBag

\* -------------------------------------------------------------- FromWrapper
\* FromWrapper.__init__
FromWrapperNesting(obj) == FromW(obj)

FromWrapper(obj) ==
  IF IsFromWrapper(obj) THEN FromW(obj.obj) ELSE FromW(obj)

\* def From(obj), reading the module global _DEBUG when it is called
From(obj, debug) == IF ~debug THEN obj ELSE FromWrapper(obj)

\* what a driver delegates to when it is handed `item`
Underlying(item) == IF IsFromWrapper(item) THEN item.obj ELSE item

\* ------------------------------------------------------- the user's program
\* The callables handed to coroutine().  add_one(n) returns n+1; get_fut(f)
\* returns the Future f; outer1(n) returns add_one(n) and outer2(n) returns
\* outer1(n), each through the decorated name; boom() raises; relay(f) is a
\* generator function: res = yield From(f); raise Return(res).
BaseFuncs == {"add_one", "get_fut", "outer1", "relay", "boom"}
Funcs == BaseFuncs \cup {"outer2"}
Callee(f) == IF f = "outer2" THEN "outer1" ELSE "add_one"
ArgsOf(f) ==
  IF f \in {"add_one", "outer1", "outer2"} THEN PlainVals
  ELSE IF f \in {"get_fut", "relay"} THEN Futures
  ELSE {None}

\* inspect.isgeneratorfunction(func)
IsGeneratorFunction(f) == f = "relay"

\* a callable as def or lambda made it: it has no _is_coroutine attribute
Undecorated(func) == [func |-> func]

\* coroutine(func) under the value `debug` of _DEBUG: the decorated callable
coroutineMarksWrapperOnly(func, debug) ==
  [func |-> func,
   branch |-> IF IsGeneratorFunction(func) THEN "genfn" ELSE "coro",
   dbg |-> debug,
   is_coroutine |-> debug]

coroutine(func, debug) ==
  [func |-> func,
   branch |-> IF IsGeneratorFunction(func) THEN "genfn" ELSE "coro",
   dbg |-> debug,
   is_coroutine |-> TRUE]

\* A generator object, with the CoroWrapper around it when there is one.
\* frame: gi_frame is not None; lasti: f_lasti (-1 before the first resume,
\* 1 at the yield); res: the local variable res.  The other fields record
\* what happened to it: callres (what func returned), item (what it yielded
\* last), term (the outcome that ended it), yields and
\* resumes (how often the body yielded and was entered), fed (whether the
\* values sent in were the termination value of the computation delegated
\* to), aborted (a throw or a close was issued).
NewGen(fac, arg) ==
  [func |-> fac.func, branch |-> fac.branch, arg |-> arg, wrapped |-> fac.dbg,
   frame |-> TRUE, lasti |-> -1, res |-> None, alive |-> TRUE,
   callres |-> None, item |-> None, term |-> [k |-> "new"],
   yields |-> 0, resumes |-> 0, fed |-> "none", aborted |-> FALSE]

\* wrapper(*args): the decorated callable is called.  coro(*args) makes the
\* generator object without running it; in debug mode it is boxed.
wrapperCallsFunc(fac, arg, h) ==
  LET res == IF fac.func = "add_one" THEN Val(arg.v + 1) ELSE arg
  IN  [heap |-> Append(h, [NewGen(fac, arg) EXCEPT !.callres = res,
                                                   !.res = res]),
       ref |-> Ref(Len(h) + 1, fac.dbg)]

wrapper(fac, arg, h) ==
  [heap |-> Append(h, NewGen(fac, arg)), ref |-> Ref(Len(h) + 1, fac.dbg)]

\* res = func(*args, **kw)
CallFunc(f, arg, h, bind) ==
  IF f = "add_one" THEN [exc |-> FALSE, res |-> Val(arg.v + 1), heap |-> h]
  ELSE IF f = "get_fut" THEN [exc |-> FALSE, res |-> arg, heap |-> h]
  ELSE IF f = "boom" THEN [exc |-> TRUE, res |-> None, heap |-> h]
  ELSE LET r == wrapper(bind[Callee(f)], arg, h)
       IN  [exc |-> FALSE, res |-> r.ref, heap |-> r.heap]

\* Outcomes of an operation on a computation.
Yield(item) == [k |-> "yield", item |-> item]
Returned(sig) == [k |-> "return", sig |-> sig]
Raised(e) == [k |-> "raise", exc |-> e]
Stopped == [k |-> "stop"]
Closed == [k |-> "closed"]

\* the awaitable test of the trampoline
NeedsDelegation(res) == IsFuture(res) \/ IsGenerator(res)

\* The body of the synthesized trampoline coro(*args, **kw), resumed with v:
\*     res = func(*args, **kw)
\*     if isinstance(res, futures.Future) or inspect.isgenerator(res):
\*         res = yield From(res)
\*     raise Return(res)
coroAlwaysDelegates(h, c, v, debug, bind, py33) ==
  IF h[c].lasti = -1
    THEN LET r == CallFunc(h[c].func, h[c].arg, h, bind)
         IN  IF r.exc
               THEN [heap |-> [r.heap EXCEPT ![c].frame = FALSE],
                     out |-> Raised("Boom")]
               ELSE [heap |-> [r.heap EXCEPT ![c].lasti = 1,
                                             ![c].res = r.res,
                                             ![c].callres = r.res],
                     out |-> Yield(From(r.res, debug))]
    ELSE [heap |-> [h EXCEPT ![c].frame = FALSE, ![c].res = v],
          out |-> Returned(Return(<<v>>, py33))]

coroTranslatesFailure(h, c, v, debug, bind, py33) ==
  IF h[c].lasti = -1
    THEN LET r == CallFunc(h[c].func, h[c].arg, h, bind)
         IN  IF r.exc
               THEN [heap |-> [r.heap EXCEPT ![c].frame = FALSE],
                     out |-> Raised("RuntimeError")]
             ELSE IF NeedsDelegation(r.res)
               THEN [heap |-> [r.heap EXCEPT ![c].lasti = 1,
                                             ![c].res = r.res,
                                             ![c].callres = r.res],
                     out |-> Yield(From(r.res, debug))]
               ELSE [heap |-> [r.heap EXCEPT ![c].frame = FALSE,
                                             ![c].res = r.res,
                                             ![c].callres = r.res],
                     out |-> Returned(Return(<<r.res>>, py33))]
    ELSE [heap |-> [h EXCEPT ![c].frame = FALSE, ![c].res = v],
          out |-> Returned(Return(<<v>>, py33))]

coro(h, c, v, debug, bind, py33) ==
  IF h[c].lasti = -1
    THEN LET r == CallFunc(h[c].func, h[c].arg, h, bind)
         IN  IF r.exc
               THEN [heap |-> [r.heap EXCEPT ![c].frame = FALSE],
                     out |-> Raised("Boom")]
             ELSE IF NeedsDelegation(r.res)
               THEN [heap |-> [r.heap EXCEPT ![c].lasti = 1,
                                             ![c].res = r.res,
                                             ![c].callres = r.res],
                     out |-> Yield(From(r.res, debug))]
               ELSE [heap |-> [r.heap EXCEPT ![c].frame = FALSE,
                                             ![c].res = r.res,
                                             ![c].callres = r.res],
                     out |-> Returned(Return(<<r.res>>, py33))]
    ELSE [heap |-> [h EXCEPT ![c].frame = FALSE, ![c].res = v],
          out |-> Returned(Return(<<v>>, py33))]

\* The body of the user's generator function relay(f), which coroutine()
\* accepts unchanged (coro = func).
relay(h, c, v, debug, py33) ==
  IF h[c].lasti = -1
    THEN [heap |-> [h EXCEPT ![c].lasti = 1],
          out |-> Yield(From(h[c].arg, debug))]
    ELSE [heap |-> [h EXCEPT ![c].frame = FALSE, ![c].res = v],
          out |-> Returned(Return(<<v>>, py33))]

\* gen.send(v) on the generator made by coro(*args): a finished generator
\* raises a bare StopIteration, a fresh one refuses a value other than None.
GenSend(h, c, v, debug, bind, py33) ==
  IF ~h[c].frame THEN [heap |-> h, out |-> Stopped]
  ELSE IF h[c].lasti = -1 /\ v # None
    THEN [heap |-> h, out |-> Raised("TypeError")]
  ELSE IF h[c].branch = "genfn" THEN relay(h, c, v, debug, py33)
  ELSE coro(h, c, v, debug, bind, py33)

\* gen.throw(exc): neither body catches anything
GenThrow(h, c, exc) ==
  [heap |-> [h EXCEPT ![c].frame = FALSE], out |-> Raised(exc)]

\* gen.close()
GenClose(h, c) ==
  [heap |-> [h EXCEPT ![c].frame = FALSE], out |-> Closed]

\* ------------------------------------------------------------- CoroWrapper
\* CoroWrapper.__next__: return next(self.gen)
CoroWrapperNext(h, c, debug, bind, py33) ==
  GenSend(h, c, None, debug, bind, py33)

\* CoroWrapper.send(*value)
CoroWrapperSendPacked(h, c, value, debug, bind, py33) ==
  GenSend(h, c, Tuple(value), debug, bind, py33)

CoroWrapperSend(h, c, value, debug, bind, py33) ==
  GenSend(h, c, IF Len(value) = 1 THEN value[1] ELSE Tuple(value),
          debug, bind, py33)

\* CoroWrapper.throw(exc)
CoroWrapperThrow(h, c, exc) == GenThrow(h, c, exc)

\* CoroWrapper.close()
CoroWrapperCloseDropped(h, c) == [heap |-> h, out |-> Closed]

CoroWrapperClose(h, c) == GenClose(h, c)

\* gen.gi_frame: None once the generator has finished, else the frame,
\* of which f_lasti is what the code reads
GenGiFrame(h, c) ==
  IF h[c].frame THEN [k |-> "frame", f_lasti |-> h[c].lasti] ELSE None

\* gen.gi_running, read by a driver, which never runs inside the generator
GenGiRunning(h, c) == FALSE

\* gen.gi_code: the code of func when coroutine() took the generator
\* function unchanged, the code of the trampoline coro otherwise
GenGiCode(h, c) == IF h[c].branch = "genfn" THEN h[c].func ELSE "coro"

\* CoroWrapper.gi_frame
CoroWrapperGiFrame(h, c) == GenGiFrame(h, c)

\* CoroWrapper.gi_running
CoroWrapperGiRunning(h, c) == GenGiRunning(h, c)

\* CoroWrapper.gi_code
CoroWrapperGiCode(h, c) == GenGiCode(h, c)

\* CoroWrapper.__del__ of the wrapper around generator g: the bag of records
\* it hands to logger.error
CoroWrapperDelUnfinished(g) ==
  IF g.frame
    THEN SetToBag({[kind |-> "never_yielded_from", func |-> g.func]})
    ELSE EmptyBag

CoroWrapperDelSilent(g) == EmptyBag

CoroWrapperDel(g) ==
  IF g.frame /\ g.lasti = -1
    THEN SetToBag({[kind |-> "never_yielded_from", func |-> g.func]})
    ELSE EmptyBag

\* iscoroutinefunction(func): getattr(func, '_is_coroutine', False)
iscoroutinefunction(fac) ==
  IF "is_coroutine" \in DOMAIN fac THEN fac.is_coroutine ELSE FALSE

\* iscoroutine(obj)
iscoroutineGeneratorOnly(obj) == IsGenerator(obj)

iscoroutine(obj) == (obj.k = "coro" /\ obj.wrapped) \/ IsGenerator(obj)

\* ------------------------------------------------------------------- state
VARIABLES
  DEBUG,     \* the module global _DEBUG
  PY33,      \* compat.PY33, which selects the form of Return at import
  marked,    \* the decorated callable each name of the program is bound to
  heap,      \* the generator objects made so far
  sigs,      \* the Return objects made so far
  log,       \* the bag of records logger.error was called with
  ndecor,    \* re-decorations done
  pool,      \* the objects built by From()/FromWrapper() applications
  seen       \* what the last operation of an observing driver gave it

vars == <<DEBUG, PY33, marked, heap, sigs, log, ndecor, pool, seen>>

Comps == 1..Len(heap)
Sigs == 1..Len(sigs)
LiveSigs == {s \in Sigs : sigs[s].alive}

Init ==
  /\ DEBUG \in BOOLEAN
  /\ PY33 \in BOOLEAN
  /\ marked = [f \in Funcs |-> coroutine(f, DEBUG)]
  /\ heap = <<>>
  /\ sigs = <<>>
  /\ log = EmptyBag
  /\ ndecor = 0
  /\ pool = <<>>
  /\ seen = <<>>

\* A Return object: the object Return(*args) built, whether it still exists,
\* whether it was raised and a driver caught it, the computation that raised
\* it (0: none) and the arguments it was built from.
NewSig(obj, caught, by, args) ==
  [tracked |-> obj.tracked, value |-> obj.value, raised |-> obj.raised,
   alive |-> TRUE, caught |-> caught, by |-> by, args |-> args]

\* the bookkeeping fields of computation c after an operation op that sent
\* v and turned the heap `before` into r.heap with outcome r.out
Record(before, r, c, op, v) ==
  LET g == r.heap[c]
      t == before[c].res
      faithful == /\ t.k = "coro"
                  /\ before[t.id].term.k = "return"
                  /\ before[t.id].term.sig.value = v
      entered == op = "send" /\ r.out # Stopped /\ r.out # Raised("TypeError")
  IN  [r.heap EXCEPT ![c] =
        [g EXCEPT
          !.item = IF r.out.k = "yield" THEN r.out.item ELSE @,
          !.term = IF before[c].frame /\ ~g.frame THEN r.out ELSE @,
          !.yields = @ + (IF r.out.k = "yield" THEN 1 ELSE 0),
          !.resumes = @ + (IF entered THEN 1 ELSE 0),
          !.fed = IF entered /\ before[c].lasti = 1
                    THEN (IF faithful /\ @ # "other" THEN "fed" ELSE "other")
                    ELSE @,
          !.aborted = @ \/ (op \in {"throw", "close"} /\ before[c].frame)]]

\* the driver receives the outcome: a Return that was raised now exists
Received(r, c) ==
  IF r.out.k = "return"
    THEN Append(sigs, NewSig(r.out.sig, TRUE, c, <<r.out.sig.value>>))
    ELSE sigs

\* ------------------------------------------------------------------ actions
\* coroutines._DEBUG is assigned
SetDebug ==
  /\ DEBUG' = ~DEBUG
  /\ UNCHANGED <<PY33, marked, heap, sigs, log, ndecor, pool, seen>>

\* name = coroutine(name) is executed again, under the current _DEBUG,
\* before the program starts calling
Decorate(f) ==
  /\ ndecor < MaxDecor
  /\ heap = <<>>
  /\ marked[f].dbg # DEBUG
  /\ marked' = [marked EXCEPT ![f] = coroutine(f, DEBUG)]
  /\ ndecor' = ndecor + 1
  /\ UNCHANGED <<DEBUG, PY33, heap, sigs, log, pool, seen>>

\* the driver calls a decorated callable: the one call the driver makes,
\* every other computation comes from the calls the program makes itself
Call(f, arg) ==
  /\ heap = <<>>
  /\ heap' = wrapper(marked[f], arg, heap).heap
  /\ UNCHANGED <<DEBUG, PY33, marked, sigs, log, ndecor, pool, seen>>

\* the driver sends v into computation c: through the CoroWrapper when
\* there is one, into the generator otherwise
Resume(c, v) ==
  LET r == IF heap[c].wrapped
             THEN IF v = None
                    THEN CoroWrapperNext(heap, c, DEBUG, marked, PY33)
                    ELSE CoroWrapperSend(heap, c, <<v>>, DEBUG, marked, PY33)
             ELSE GenSend(heap, c, v, DEBUG, marked, PY33)
  IN  /\ heap[c].alive
      /\ r.out.k = "return" => Cardinality(LiveSigs) < MaxLive
      /\ heap' = Record(heap, r, c, "send", v)
      /\ sigs' = Received(r, c)
      /\ UNCHANGED <<DEBUG, PY33, marked, log, ndecor, pool, seen>>

\* next(c)
DriverNext(c) == Resume(c, None)

\* c.send(v)
DriverSend(c, v) == Resume(c, v)

\* the computation c delegates to has terminated: its value is sent into c
DriverFeed(c) ==
  /\ heap[c].frame /\ heap[c].lasti = 1
  /\ heap[c].res.k = "coro"
  /\ heap[heap[c].res.id].term.k = "return"
  /\ Resume(c, heap[heap[c].res.id].term.sig.value)

\* c.throw(exc)
DriverThrow(c) ==
  LET r == IF heap[c].wrapped THEN CoroWrapperThrow(heap, c, "Cancel")
                              ELSE GenThrow(heap, c, "Cancel")
  IN  /\ heap[c].alive
      /\ heap' = Record(heap, r, c, "throw", None)
      /\ UNCHANGED <<DEBUG, PY33, marked, sigs, log, ndecor, pool, seen>>

\* c.close()
DriverClose(c) ==
  LET r == IF heap[c].wrapped THEN CoroWrapperClose(heap, c)
                              ELSE GenClose(heap, c)
  IN  /\ heap[c].alive
      /\ heap' = Record(heap, r, c, "close", None)
      /\ UNCHANGED <<DEBUG, PY33, marked, sigs, log, ndecor, pool, seen>>

\* some object that still exists holds a reference to computation c
Referenced(c) ==
  \/ \E d \in Comps : /\ heap[d].alive /\ heap[d].frame
                      /\ heap[d].res.k = "coro" /\ heap[d].res.id = c
  \/ \E s \in Sigs : /\ sigs[s].alive
                     /\ sigs[s].value.k = "coro" /\ sigs[s].value.id = c

\* the last reference to the CoroWrapper of computation c is dropped (a
\* bare generator has no __del__ here)
Destroy(c) ==
  /\ heap[c].alive /\ heap[c].wrapped
  /\ ~Referenced(c)
  /\ heap' = [heap EXCEPT ![c].alive = FALSE]
  /\ log' = log (+) CoroWrapperDel(heap[c])
  /\ UNCHANGED <<DEBUG, PY33, marked, sigs, ndecor, pool, seen>>

\* the driver that caught a Return sets exc.raised = True
MarkRaised(s) ==
  /\ sigs[s].alive /\ sigs[s].tracked /\ ~sigs[s].raised
  /\ sigs[s].caught
  /\ sigs' = [sigs EXCEPT ![s].raised = TRUE]
  /\ UNCHANGED <<DEBUG, PY33, marked, heap, log, ndecor, pool, seen>>

\* the last reference to a Return object is dropped
Discard(s) ==
  /\ sigs[s].alive
  /\ sigs' = [sigs EXCEPT ![s].alive = FALSE]
  /\ log' = log (+) (IF sigs[s].tracked THEN ReturnDel(sigs[s])
                                         ELSE EmptyBag)
  /\ UNCHANGED <<DEBUG, PY33, marked, heap, ndecor, pool, seen>>

\* what the driver and the collector do once the program runs
Drive ==
  \/ SetDebug
  \/ \E c \in Comps : DriverNext(c)
  \/ \E c \in Comps : \E v \in PlainVals : DriverSend(c, v)
  \/ \E c \in Comps : DriverFeed(c)
  \/ \E c \in Comps : DriverThrow(c)
  \/ \E c \in Comps : DriverClose(c)
  \/ \E c \in Comps : Destroy(c)
  \/ \E s \in Sigs : MarkRaised(s)
  \/ \E s \in Sigs : Discard(s)

\* the program without outer2: delegation one level deep
Next ==
  \/ \E f \in BaseFuncs : Decorate(f)
  \/ \E f \in BaseFuncs : \E arg \in ArgsOf(f) : Call(f, arg)
  \/ Drive

Spec == Init /\ [][Next]_vars

\* the whole program: delegation up to two levels deep
NextChain ==
  \/ \E f \in Funcs : Decorate(f)
  \/ \E f \in Funcs : \E arg \in ArgsOf(f) : Call(f, arg)
  \/ Drive

SpecChain == Init /\ [][NextChain]_vars

\* ------------------------------------------- Return built by the user's code
ArgLists == UNION {[1..n -> SendVals] : n \in 0..MaxArgs}
ShortArgLists == {<<>>} \cup {<<v>> : v \in PlainVals}

\* Return(*args) is evaluated; raisedToDriver: by a raise statement whose
\* exception a driver catches
Build(args, raisedToDriver) ==
  /\ sigs' = Append(sigs, NewSig(Return(args, PY33), raisedToDriver, 0, args))
  /\ UNCHANGED <<DEBUG, PY33, marked, heap, log, ndecor, pool, seen>>

\* the value of Return(*args), for every argument list
EvalReturn(args) ==
  /\ Len(sigs) < MaxBuilt
  /\ Build(args, FALSE)

NextReturn ==
  \/ \E args \in ArgLists : EvalReturn(args)
  \/ \E s \in Sigs : Discard(s)

SpecReturn == Init /\ [][NextReturn]_vars

\* the user's code evaluates Return(*args) and does not raise it
ConstructReturn(args) ==
  /\ Len(sigs) < MaxSigs
  /\ Build(args, FALSE)

\* the user's code raises Return(*args) and a driver catches it
RaiseReturn(args) ==
  /\ Len(sigs) < MaxSigs
  /\ Build(args, TRUE)

NextSignal ==
  \/ \E args \in ShortArgLists : ConstructReturn(args)
  \/ \E args \in ShortArgLists : RaiseReturn(args)
  \/ \E s \in Sigs : MarkRaised(s)
  \/ \E s \in Sigs : Discard(s)

SpecSignal == Init /\ [][NextSignal]_vars

\* ------------------------------------------------- From() and FromWrapper()
Awaitables == Futures \cup {Ref(1, FALSE), Ref(1, TRUE)}

\* an awaitable enters the program
TagNew(x) ==
  /\ Len(pool) < MaxTags
  /\ pool' = Append(pool, [val |-> x, base |-> x, via |-> "new", src |-> 0,
                           dbg |-> DEBUG])
  /\ UNCHANGED <<DEBUG, PY33, marked, heap, sigs, log, ndecor, seen>>

\* From(pool[i]) is evaluated
ApplyFrom(i) ==
  /\ Len(pool) < MaxTags
  /\ pool' = Append(pool, [val |-> From(pool[i].val, DEBUG),
                           base |-> pool[i].base, via |-> "From", src |-> i,
                           dbg |-> DEBUG])
  /\ UNCHANGED <<DEBUG, PY33, marked, heap, sigs, log, ndecor, seen>>

\* FromWrapper(pool[i]) is evaluated
ApplyFromWrapper(i) ==
  /\ Len(pool) < MaxTags
  /\ pool' = Append(pool, [val |-> FromWrapper(pool[i].val),
                           base |-> pool[i].base, via |-> "FromWrapper",
                           src |-> i, dbg |-> DEBUG])
  /\ UNCHANGED <<DEBUG, PY33, marked, heap, sigs, log, ndecor, seen>>

NextFrom ==
  \/ SetDebug
  \/ \E x \in Awaitables : TagNew(x)
  \/ \E i \in 1..Len(pool) : ApplyFrom(i)
  \/ \E i \in 1..Len(pool) : ApplyFromWrapper(i)

SpecFrom == Init /\ [][NextFrom]_vars

\* ------------------------------------------- one program run in both modes
\* heap[1] is the computation of a process started with _DEBUG true,
\* heap[2] that of a process started with _DEBUG false; both run the same
\* program and get the same operations from the driver.
AllMarked(debug) == [f \in Funcs |-> coroutine(f, debug)]

TwinCall(f, arg) ==
  /\ heap = <<>>
  /\ heap' = wrapper(AllMarked(FALSE)[f], arg,
                     wrapper(AllMarked(TRUE)[f], arg, heap).heap).heap
  /\ UNCHANGED <<DEBUG, PY33, marked, sigs, log, ndecor, pool, seen>>

\* one operation on computation c of the process whose _DEBUG is `debug`
TwinStep(h, c, op, v, debug) ==
  LET r == IF op = "send"
             THEN IF ~h[c].wrapped
                    THEN GenSend(h, c, v, debug, AllMarked(debug), PY33)
                  ELSE IF v = None
                    THEN CoroWrapperNext(h, c, debug, AllMarked(debug), PY33)
                  ELSE CoroWrapperSend(h, c, <<v>>, debug, AllMarked(debug),
                                       PY33)
           ELSE IF op = "throw"
             THEN IF h[c].wrapped THEN CoroWrapperThrow(h, c, "Cancel")
                                  ELSE GenThrow(h, c, "Cancel")
           ELSE IF h[c].wrapped THEN CoroWrapperClose(h, c)
                                ELSE GenClose(h, c)
  IN  Record(h, r, c, op, v)

TwinOp(op, v) ==
  /\ Len(heap) >= 2
  /\ heap' = TwinStep(TwinStep(heap, 1, op, v, TRUE), 2, op, v, FALSE)
  /\ UNCHANGED <<DEBUG, PY33, marked, sigs, log, ndecor, pool, seen>>

TwinNext == TwinOp("send", None)
TwinSend(v) == TwinOp("send", v)
TwinThrow == TwinOp("throw", None)
TwinClose == TwinOp("close", None)

NextTwin ==
  \/ \E f \in Funcs : \E arg \in ArgsOf(f) : TwinCall(f, arg)
  \/ TwinNext
  \/ \E v \in PlainVals : TwinSend(v)
  \/ TwinThrow
  \/ TwinClose

SpecTwin == Init /\ [][NextTwin]_vars

\* ------------------------------------- the wrapper beside the bare generator
\* one operation of a driver on computation c: on the CoroWrapper when c has
\* one, on the generator itself otherwise
Issue(h, c, op, v, debug, bind, py33) ==
  IF op = "send"
    THEN IF ~h[c].wrapped THEN GenSend(h, c, v, debug, bind, py33)
         ELSE IF v = None THEN CoroWrapperNext(h, c, debug, bind, py33)
         ELSE CoroWrapperSend(h, c, <<v>>, debug, bind, py33)
  ELSE IF op = "throw"
    THEN IF h[c].wrapped THEN CoroWrapperThrow(h, c, "Cancel")
                         ELSE GenThrow(h, c, "Cancel")
  ELSE IF h[c].wrapped THEN CoroWrapperClose(h, c)
                       ELSE GenClose(h, c)

\* what a driver got from one operation: the computation, the operation,
\* whether the computation had finished before it, how often its body had
\* been entered before it, and the outcome
Seen(h, c, op, r) ==
  [c |-> c, op |-> op, late |-> ~h[c].frame, resumes |-> h[c].resumes,
   out |-> r.out]

\* coro(*args, **kwds) as wrapper() evaluates it before it boxes the result:
\* the generator without its CoroWrapper
Unboxed(fac) == [fac EXCEPT !.dbg = FALSE]

\* w = f(arg) through the debug wrapper and g = coro(arg) beside it:
\* heap[1] is reached through its CoroWrapper, heap[2] is a generator of
\* the same coro, reached directly
ProxyCall(f, arg) ==
  /\ heap = <<>>
  /\ marked[f].dbg
  /\ heap' = wrapper(Unboxed(marked[f]), arg,
                     wrapper(marked[f], arg, heap).heap).heap
  /\ UNCHANGED <<DEBUG, PY33, marked, sigs, log, ndecor, pool, seen>>

\* the same operation on the wrapper and on the bare generator
ProxyOp(op, v) ==
  LET r1 == Issue(heap, 1, op, v, DEBUG, marked, PY33)
      h1 == Record(heap, r1, 1, op, v)
      r2 == Issue(h1, 2, op, v, DEBUG, marked, PY33)
  IN  /\ Len(heap) >= 2
      /\ heap' = Record(h1, r2, 2, op, v)
      /\ seen' = <<Seen(heap, 1, op, r1), Seen(h1, 2, op, r2)>>
      /\ UNCHANGED <<DEBUG, PY33, marked, sigs, log, ndecor, pool>>

ProxyNext == ProxyOp("send", None)
ProxySend(v) == ProxyOp("send", v)
ProxyThrow == ProxyOp("throw", None)
ProxyClose == ProxyOp("close", None)

NextProxy ==
  \/ SetDebug
  \/ \E f \in Funcs : Decorate(f)
  \/ \E f \in Funcs : \E arg \in ArgsOf(f) : ProxyCall(f, arg)
  \/ ProxyNext
  \/ \E v \in PlainVals : ProxySend(v)
  \/ ProxyThrow
  \/ ProxyClose

SpecProxy == Init /\ [][NextProxy]_vars

\* ------------------------------------------- a driver that looks at outcomes
\* the exception object an operation hands to the except clauses of its
\* caller: Return is a subclass of StopIteration in its class form and
\* builds a plain StopIteration(value) in its function form; a finished
\* generator raises StopIteration(), whose value is None
Caught(out) ==
  IF out.k = "return"
    THEN [type |-> IF out.sig.tracked THEN "Return" ELSE "StopIteration",
          value |-> out.sig.value]
  ELSE IF out.k = "stop" THEN [type |-> "StopIteration", value |-> None]
  ELSE IF out.k = "raise" THEN [type |-> out.exc, value |-> None]
  ELSE [type |-> "nothing raised", value |-> None]

\* one operation of the driver on computation c, and what it gave
Observe(c, op, v) ==
  LET r == Issue(heap, c, op, v, DEBUG, marked, PY33)
  IN  /\ heap[c].alive
      /\ heap' = Record(heap, r, c, op, v)
      /\ seen' = <<Seen(heap, c, op, r)>>
      /\ UNCHANGED <<DEBUG, PY33, marked, sigs, log, ndecor, pool>>

ObserveNext(c) == Observe(c, "send", None)
ObserveSend(c, v) == Observe(c, "send", v)
ObserveThrow(c) == Observe(c, "throw", None)
ObserveClose(c) == Observe(c, "close", None)

NextObserve ==
  \/ SetDebug
  \/ \E f \in BaseFuncs : Decorate(f)
  \/ \E f \in BaseFuncs : \E arg \in ArgsOf(f) : Call(f, arg)
  \/ \E c \in Comps : ObserveNext(c)
  \/ \E c \in Comps : \E v \in PlainVals : ObserveSend(c, v)
  \/ \E c \in Comps : ObserveThrow(c)
  \/ \E c \in Comps : ObserveClose(c)

SpecObserve == Init /\ [][NextObserve]_vars

\* ------------------------------------------------------------------ claims
IsAwaitable(x) == IsFuture(x) \/ iscoroutine(x)
Trampolines == {c \in Comps : heap[c].branch = "coro"}
Dead == {c \in Comps : ~heap[c].alive}
NeverYielded(f) == [kind |-> "never_yielded_from", func |-> f]

\* C1: a marked plain-valued function (add_one) terminates on its first
\* resume, without suspending, with a Return carrying the value the
\* function computed (n + 1).
C1_PlainTerminatesOnFirstResume ==
  \A c \in Trampolines :
    (heap[c].func = "add_one" /\ heap[c].resumes >= 1) =>
      /\ heap[c].resumes = 1
      /\ heap[c].yields = 0
      /\ ~heap[c].frame
      /\ heap[c].term.k = "return"
      /\ heap[c].term.sig.value = Val(heap[c].arg.v + 1)

C1_Witness ==
  \E c \in Trampolines :
    /\ heap[c].func = "add_one" /\ heap[c].wrapped
    /\ heap[c].term.k = "return"
    /\ heap[c].term.sig.value = Val(1)

\* C2 (as claimed): whenever the function behind a trampoline returned an
\* awaitable (a Future or a coroutine object), the trampoline suspended
\* exactly once on its first resume, yielding that awaitable, and it never
\* terminates carrying the awaitable itself.
C2_AwaitableIsDelegated ==
  \A c \in Trampolines :
    (heap[c].resumes >= 1 /\ IsAwaitable(heap[c].callres)) =>
      /\ heap[c].yields = 1
      /\ Underlying(heap[c].item) = heap[c].callres
      /\ heap[c].term.k = "return" =>
           /\ heap[c].term.sig.value # heap[c].callres
           /\ heap[c].term.sig.value = heap[c].res

\* C3 (as claimed): the computation of the debug process and that of the
\* non-debug process, given the same operations, have suspended equally
\* often, delegate to the same awaitable and have ended the same way.
AbsVal(x) ==
  IF x.k = "coro" THEN [k |-> "coro", func |-> heap[x.id].func,
                        arg |-> heap[x.id].arg]
                  ELSE x
AbsOut(o) ==
  IF o.k = "return" THEN [k |-> "return", value |-> AbsVal(o.sig.value)] ELSE o
Behaviour(c) ==
  [frame |-> heap[c].frame, lasti |-> heap[c].lasti,
   yields |-> heap[c].yields, resumes |-> heap[c].resumes,
   target |-> AbsVal(Underlying(heap[c].item)), term |-> AbsOut(heap[c].term)]

C3_DebugSameBehaviour == Len(heap) >= 2 => Behaviour(1) = Behaviour(2)

\* C4 (as claimed): a marked function that returns a nested coroutine
\* (outer1, outer2), run to completion by a driver that sent in nothing but
\* the termination value of that coroutine, terminates with the
\* termination value of that coroutine.
C4_DelegationValue ==
  \A c \in Trampolines :
    (/\ heap[c].func \in {"outer1", "outer2"}
     /\ heap[c].term.k = "return"
     /\ heap[c].fed # "other") =>
      /\ heap[c].callres.k = "coro"
      /\ heap[heap[c].callres.id].term.k = "return"
      /\ heap[heap[c].callres.id].term.sig.value = heap[c].term.sig.value

NoLeak ==
  /\ \A c \in Dead : /\ heap[c].resumes >= 1 /\ ~heap[c].frame
                     /\ ~heap[c].aborted
  /\ \A s \in Sigs : sigs[s].caught

C7_NoLeakNoLog == NoLeak => log = EmptyBag


\* C7 (amended): when every destroyed computation had been resumed to
\* termination, every Return built was raised as a termination, and the
\* driver that caught a tracked Return set its raised flag before dropping
\* it, nothing has been logged.
C7_NoLeakMarkedNoLog ==
  (/\ NoLeak
   /\ \A s \in Sigs : (~sigs[s].alive /\ sigs[s].tracked) => sigs[s].raised)
    => log = EmptyBag

C7_Witness ==
  /\ NoLeak
  /\ \E c \in Dead : heap[c].wrapped /\ heap[c].term.k = "return"
  /\ \E s \in Sigs : ~sigs[s].alive /\ sigs[s].tracked /\ sigs[s].raised
  /\ \A s \in Sigs : (~sigs[s].alive /\ sigs[s].tracked) => sigs[s].raised

\* C8: every tracked Return discarded with its raised flag false has logged
\* exactly one record, and one discarded with the flag set has logged none.
C8_UnraisedLogsOnce ==
  BagCardinality(log) =
    Cardinality({s \in Sigs : ~sigs[s].alive /\ sigs[s].tracked
                              /\ ~sigs[s].raised})

C8_Witness ==
  /\ \E s \in Sigs : ~sigs[s].alive /\ sigs[s].tracked /\ sigs[s].raised
  /\ \E s \in Sigs : ~sigs[s].alive /\ sigs[s].tracked /\ ~sigs[s].raised

\* C9: Return(*args) carries None for no argument, the argument for one,
\* the tuple of the arguments for more, and the function form and the class
\* form carry the same value.
C9_ReturnValue ==
  \A s \in Sigs :
    LET args == sigs[s].args
    IN  /\ Len(args) = 0 => sigs[s].value = None
        /\ Len(args) = 1 => sigs[s].value = args[1]
        /\ Len(args) >= 2 => sigs[s].value = Tuple(args)
        /\ ReturnFunction(args).value = ReturnClass(args).value

C9_Witness ==
  \E s \in Sigs : /\ Len(sigs[s].args) >= 2 /\ sigs[s].tracked
                   /\ sigs[s].value = Tuple(sigs[s].args)

\* C10: no FromWrapper holds a FromWrapper, every object built by From()
\* and FromWrapper() applications carries the awaitable it started from,
\* and in debug mode From(From(x)) equals From(x).
C10_NoNestedTag ==
  \A i \in 1..Len(pool) :
    /\ IsFromWrapper(pool[i].val) => ~IsFromWrapper(pool[i].val.obj)
    /\ Underlying(pool[i].val) = pool[i].base
    /\ (/\ pool[i].via = "From" /\ pool[i].dbg
        /\ pool[pool[i].src].via = "From" /\ pool[pool[i].src].dbg)
         => pool[i].val = pool[pool[i].src].val

C10_Witness ==
  \E i \in 1..Len(pool) :
    /\ pool[i].via = "From" /\ pool[i].dbg
    /\ pool[pool[i].src].via = "From" /\ pool[pool[i].src].dbg
    /\ IsFromWrapper(pool[pool[i].src].val)

\* C11: after any sequence of next, send, throw and close operations issued
\* alike on a CoroWrapper and on a bare generator of the same coro, the last
\* operation gave both drivers the same outcome (the same yielded item, the
\* same termination value, the same failure), and gi_frame, gi_running and
\* gi_code read through the wrapper equal those of the bare generator.
Shape(o) ==
  IF o.k = "yield"
    THEN [k |-> "yield", tagged |-> IsFromWrapper(o.item),
          target |-> AbsVal(Underlying(o.item))]
    ELSE AbsOut(o)

C11_TransparentProxy ==
  Len(heap) >= 2 =>
    /\ CoroWrapperGiFrame(heap, 1) = GenGiFrame(heap, 2)
    /\ CoroWrapperGiRunning(heap, 1) = GenGiRunning(heap, 2)
    /\ CoroWrapperGiCode(heap, 1) = GenGiCode(heap, 2)
    /\ Len(seen) = 2 => Shape(seen[1].out) = Shape(seen[2].out)

C11_Witness ==
  /\ Len(heap) >= 2 /\ Len(seen) = 2
  /\ heap[1].wrapped /\ ~heap[2].wrapped
  /\ heap[1].yields = 1
  /\ seen[1].op = "send" /\ seen[1].out.k = "return"
  /\ seen[1].out.sig.value \in PlainVals

\* C12 (as claimed): a resume (next or send) issued on a computation that
\* had already terminated gives the driver an exception that no normal
\* termination gives (no Return(*args) looks like it), hands over no value,
\* and does not enter the body again.
LooksLikeTermination(e) ==
  \E args \in ArgLists : e = Caught(Returned(Return(args, PY33)))

C12_LateResumeIsDistinctError ==
  \A i \in 1..Len(seen) :
    (seen[i].late /\ seen[i].op = "send") =>
      /\ seen[i].out.k \notin {"yield", "return"}
      /\ ~LooksLikeTermination(Caught(seen[i].out))
      /\ heap[seen[i].c].resumes = seen[i].resumes

\* C13 (as claimed): the flag value a function was marked under decides,
\* whatever the flag is set to later, what its factory returns (a
\* CoroWrapper or a bare generator) and what its computation yields: a
\* function marked in debug mode yields its awaitable tagged, one marked in
\* non-debug mode yields it bare.
C13_FlagReadAtDecoration ==
  \A c \in Comps :
    /\ iscoroutine(Ref(c, heap[c].wrapped))
    /\ heap[c].yields >= 1 => (IsFromWrapper(heap[c].item) = heap[c].wrapped)

\* C14: the failure raised by the function behind a trampoline (boom) is
\* what the resume that entered the body raises to the driver, and an
\* exception thrown into a computation is what the throw raises to the
\* driver, each unchanged, through the CoroWrapper and without it.
C14_FailureUnchanged ==
  \A i \in 1..Len(seen) :
    LET e == seen[i]
    IN  /\ (heap[e.c].func = "boom" /\ heap[e.c].resumes > e.resumes)
              => /\ e.out = Raised("Boom")
                 /\ Caught(e.out).type = "Boom"
        /\ e.op = "throw" => e.out = Raised("Cancel")

C14_Witness ==
  /\ \E i \in 1..Len(seen) :
       /\ heap[seen[i].c].func = "boom" /\ heap[seen[i].c].wrapped
       /\ heap[seen[i].c].resumes > seen[i].resumes
       /\ seen[i].out = Raised("Boom")

\* C15: iscoroutinefunction is true of the callable coroutine() returned
\* for every name of the program, whichever branch made it and whatever
\* _DEBUG was at its decoration, and false of a callable that was never
\* handed to coroutine().
NeverDecorated == {"helper"}

C15_MarkedIffDecorated ==
  /\ \A f \in Funcs : iscoroutinefunction(marked[f])
  /\ \A f \in NeverDecorated : ~iscoroutinefunction(Undecorated(f))

C15_Witness ==
  /\ ndecor >= 1
  /\ \E f, g \in Funcs :
       /\ marked[f].branch = "genfn" /\ marked[g].branch = "coro"
       /\ marked[f].dbg /\ ~marked[g].dbg
       /\ iscoroutinefunction(marked[f]) /\ iscoroutinefunction(marked[g])

\* C16: a computation that was called and never resumed has run none of
\* the function behind it: the function was not called, nothing was
\* yielded, no failure of the body was raised, and no computation of a
\* nested marked function exists on its behalf; the failure of boom shows
\* at the first resume.
C16_CallRunsNothing ==
  /\ \A c \in Comps :
       heap[c].resumes = 0 =>
         /\ heap[c].callres = None /\ heap[c].res = None
         /\ heap[c].yields = 0 /\ heap[c].lasti = -1
         /\ heap[c].term # Raised("Boom")
         /\ ~\E d \in Comps : d > c
  /\ \A c \in Comps :
       (heap[c].func = "boom" /\ heap[c].resumes >= 1)
         => heap[c].term = Raised("Boom")

C16_Witness ==
  \E c \in Comps : /\ heap[c].func = "outer1" /\ heap[c].branch = "coro"
                    /\ heap[c].wrapped /\ heap[c].resumes = 0
                    /\ ~heap[c].alive /\ Len(heap) = 1

C18_RecognizedThroughout ==
  /\ \A f \in Funcs : \A arg \in ArgsOf(f) :
       iscoroutine(wrapper(marked[f], arg, heap).ref)
  /\ \A c \in Comps :
       /\ iscoroutine(Ref(c, heap[c].wrapped))
       /\ GenGiFrame(heap, c) \in
            {None, [k |-> "frame", f_lasti |-> -1], [k |-> "frame", f_lasti |-> 1]}

C18_Witness ==
  /\ \E c \in Comps : /\ heap[c].wrapped /\ heap[c].alive
                       /\ heap[c].term.k = "return"
                       /\ iscoroutine(Ref(c, TRUE))
  /\ \E c \in Comps : /\ heap[c].wrapped /\ heap[c].alive
                       /\ heap[c].frame /\ heap[c].lasti = -1

====
